---- MODULE Spec2Model ----
(***************************************************************************)
(* A model of the generational arena of src/lib.rs: a growable vector of   *)
(* entries, each Free (a link of the intrusive free list) or Occupied (a   *)
(* value stamped with a generation), an arena-wide generation counter and  *)
(* the head of the free list.  Positions are 0-based as in the source;     *)
(* position p of the vector is element p + 1 of the sequence `items`.      *)
(* Option<usize> is modelled as a sequence of length 0 (None) or 1 (Some). *)
(* A panic (assert!, panic!, expect, slice index out of range) ends the    *)
(* run: it is recorded in `fatal` and no operation is taken after it.      *)
(***************************************************************************)
EXTENDS Integers, Sequences, FiniteSets, TLC

\* ---- bounds of the model ----
MaxCap == 2          \* longest `items` vector explored
MaxGen == 1          \* most successful removals explored (the u64 counter never wraps here)
MaxInitCap == 1      \* with_capacity(n) is explored for n in 0..MaxInitCap
MaxAdditional == 1   \* reserve(additional) is explored for additional in 0..MaxAdditional
MaxFillCap == 8      \* longest `items` vector explored when only insert is called

\* ---- program constants ----
DEFAULT_CAPACITY == 4

Values == {10, 20}

VARIABLES
    items,           \* Arena.items : Vec<Entry<T>>
    generation,      \* Arena.generation : u64
    free_list_head,  \* Arena.free_list_head : Option<usize>
    fatal,           \* "none", the panic that ended the run, or "consumed" after into_iter
    last,            \* the last call that changed the arena or panicked, and what it returned
    issued,          \* history: every Index returned by insert/try_insert
    held,            \* history: the indices returned and not yet removed, each with the value inserted
    removed,         \* history: every Index whose remove returned Some(value)
    removals         \* history: how many calls of remove returned Some(value)

vars == <<items, generation, free_list_head, fatal, last, issued, held, removed, removals>>

\* ---- Option<usize> ----
None == <<>>
Some(x) == <<x>>
Unwrap(o) == o[1]

\* ---- enum Entry<T> ----
Free(next) == [tag |-> "Free", next_free |-> next]
Occupied(gen, val) == [tag |-> "Occupied", generation |-> gen, value |-> val]

\* ---- struct Index ----
Index(pos, gen) == [index |-> pos, generation |-> gen]

\* every Index a caller can present: any position up to one past the largest
\* vector, any generation up to the largest counter value
IndexSet == {Index(p, g) : p \in 0..MaxCap, g \in 0..MaxGen}

\* ---- results of the calls ----
Ok(idx) == [kind |-> "Ok", index |-> idx]
Err(val) == [kind |-> "Err", value |-> val]
SomeV(val) == [kind |-> "Some", value |-> val]
NoneV == [kind |-> "None"]
Unit == [kind |-> "Unit"]
Bool(b) == [kind |-> "Bool", bool |-> b]
Panic(msg) == [kind |-> "panic", msg |-> msg]

\* ---- vector access: self.items[p], self.items[p] = e ----
At(its, p) == its[p + 1]
Put(its, p, e) == [its EXCEPT ![p + 1] = e]

Arena(its, gen, head) == [items |-> its, generation |-> gen, free_list_head |-> head]

self == Arena(items, generation, free_list_head)

capacity(a) == Len(a.items)

\* reserve as it would be if it threaded every slot from position 0 instead of
\* from the old length: the old entries are rebuilt as Free
reserve_fromZero(a, additional_capacity) ==
    LET end == Len(a.items) + additional_capacity
        old_head == a.free_list_head
        rebuilt == [k \in 1..end |->
                        LET i == k - 1
                        IN  IF i = end - 1 THEN Free(old_head) ELSE Free(Some(i + 1))]
    IN  Arena(rebuilt, a.generation, Some(0))

\* reserve as it would be with an inclusive range (start..=end): one slot too many
reserve_oneMore(a, additional_capacity) ==
    LET start == Len(a.items)
        end == Len(a.items) + additional_capacity + 1
        old_head == a.free_list_head
        appended == [k \in 1..(additional_capacity + 1) |->
                        LET i == start + k - 1
                        IN  IF i = end - 1 THEN Free(old_head) ELSE Free(Some(i + 1))]
    IN  Arena(a.items \o appended, a.generation, Some(start))

\* reserve as it would be if the new slots were threaded from the last one down
\* to the first: the head is the last appended position
reserve_reversed(a, additional_capacity) ==
    LET start == Len(a.items)
        end == Len(a.items) + additional_capacity
        old_head == a.free_list_head
        appended == [k \in 1..additional_capacity |->
                        LET i == start + k - 1
                        IN  IF i = start THEN Free(old_head) ELSE Free(Some(i - 1))]
    IN  Arena(a.items \o appended, a.generation, Some(end - 1))

\* fn reserve(&mut self, additional_capacity)
reserve(a, additional_capacity) ==
    LET start == Len(a.items)
        end == Len(a.items) + additional_capacity
        old_head == a.free_list_head
        appended == [k \in 1..additional_capacity |->
                        LET i == start + k - 1
                        IN  IF i = end - 1 THEN Free(old_head) ELSE Free(Some(i + 1))]
    IN  Arena(a.items \o appended, a.generation, Some(start))

\* with_capacity as it would be without assert!(n > 0)
with_capacity_noAssert(n) ==
    [arena |-> reserve(Arena(<<>>, 0, None), n), res |-> Unit]

\* fn with_capacity(n): the arena, or the failed assert!(n > 0)
with_capacity(n) ==
    IF ~(n > 0)
    THEN [arena |-> Arena(<<>>, 0, None), res |-> Panic("assertion failed: n > 0")]
    ELSE [arena |-> reserve(Arena(<<>>, 0, None), n), res |-> Unit]

\* fn new()
new == with_capacity(DEFAULT_CAPACITY)

\* try_insert as it would be if the Index returned carried the generation the
\* slot was first filled with (0) instead of the arena's current generation
try_insert_staleIndex(a, value) ==
    IF a.free_list_head = None
    THEN [arena |-> a, res |-> Err(value)]
    ELSE LET i == Unwrap(a.free_list_head)
         IN  IF ~(i < Len(a.items))
             THEN [arena |-> a, res |-> Panic("index out of bounds")]
             ELSE IF At(a.items, i).tag = "Occupied"
             THEN [arena |-> a, res |-> Panic("corrupt free list")]
             ELSE [arena |-> Arena(Put(a.items, i, Occupied(0, value)),
                                   a.generation,
                                   At(a.items, i).next_free),
                   res |-> Ok(Index(i, 0))]

\* try_insert as it would be if the generation advanced on insertion as well
try_insert_bumps(a, value) ==
    IF a.free_list_head = None
    THEN [arena |-> a, res |-> Err(value)]
    ELSE LET i == Unwrap(a.free_list_head)
         IN  IF ~(i < Len(a.items))
             THEN [arena |-> a, res |-> Panic("index out of bounds")]
             ELSE IF At(a.items, i).tag = "Occupied"
             THEN [arena |-> a, res |-> Panic("corrupt free list")]
             ELSE [arena |-> Arena(Put(a.items, i, Occupied(a.generation, value)),
                                   a.generation + 1,
                                   At(a.items, i).next_free),
                   res |-> Ok(Index(i, a.generation))]

\* try_insert as it would be if the Index returned counted positions from 1
try_insert_offByOne(a, value) ==
    IF a.free_list_head = None
    THEN [arena |-> a, res |-> Err(value)]
    ELSE LET i == Unwrap(a.free_list_head)
         IN  IF ~(i < Len(a.items))
             THEN [arena |-> a, res |-> Panic("index out of bounds")]
             ELSE IF At(a.items, i).tag = "Occupied"
             THEN [arena |-> a, res |-> Panic("corrupt free list")]
             ELSE [arena |-> Arena(Put(a.items, i, Occupied(a.generation, value)),
                                   a.generation,
                                   At(a.items, i).next_free),
                   res |-> Ok(Index(i + 1, a.generation))]

\* try_insert as it would be if the slot were stamped with the generation to
\* come (self.generation + 1)
try_insert_stampsNext(a, value) ==
    IF a.free_list_head = None
    THEN [arena |-> a, res |-> Err(value)]
    ELSE LET i == Unwrap(a.free_list_head)
         IN  IF ~(i < Len(a.items))
             THEN [arena |-> a, res |-> Panic("index out of bounds")]
             ELSE IF At(a.items, i).tag = "Occupied"
             THEN [arena |-> a, res |-> Panic("corrupt free list")]
             ELSE [arena |-> Arena(Put(a.items, i, Occupied(a.generation + 1, value)),
                                   a.generation,
                                   At(a.items, i).next_free),
                   res |-> Ok(Index(i, a.generation + 1))]

\* fn try_insert(&mut self, value) -> Result<Index, T>
try_insert(a, value) ==
    IF a.free_list_head = None
    THEN [arena |-> a, res |-> Err(value)]
    ELSE LET i == Unwrap(a.free_list_head)
         IN  IF ~(i < Len(a.items))
             THEN [arena |-> a, res |-> Panic("index out of bounds")]
             ELSE IF At(a.items, i).tag = "Occupied"
             THEN [arena |-> a, res |-> Panic("corrupt free list")]
             ELSE [arena |-> Arena(Put(a.items, i, Occupied(a.generation, value)),
                                   a.generation,
                                   At(a.items, i).next_free),
                   res |-> Ok(Index(i, a.generation))]

\* fn insert(&mut self, value) -> Index
insert(a, value) ==
    LET first == try_insert(a, value)
    IN  IF first.res.kind # "Err"
        THEN first
        ELSE LET len == Len(first.arena.items)
                 grown == reserve(first.arena, len)
                 second == try_insert(grown, value)
             IN  IF second.res.kind = "Err"
                 THEN [arena |-> second.arena,
                       res |-> Panic("inserting will always succeed after reserving additional space")]
                 ELSE second

\* remove as it would be without the generation comparison: any Occupied slot is freed
remove_ignoresGeneration(a, i) ==
    IF ~(i.index < Len(a.items))
    THEN [arena |-> a, res |-> Panic("assertion failed: i.index < self.items.len()")]
    ELSE LET entry == At(a.items, i.index)
             replaced == Put(a.items, i.index, Free(a.free_list_head))
         IN  IF entry.tag = "Occupied"
             THEN [arena |-> Arena(replaced, a.generation + 1, Some(i.index)),
                   res |-> SomeV(entry.value)]
             ELSE [arena |-> Arena(Put(replaced, i.index, entry),
                                   a.generation, a.free_list_head),
                   res |-> NoneV]

\* remove as it would be without `self.generation += 1`
remove_noBump(a, i) ==
    IF ~(i.index < Len(a.items))
    THEN [arena |-> a, res |-> Panic("assertion failed: i.index < self.items.len()")]
    ELSE LET entry == At(a.items, i.index)
             replaced == Put(a.items, i.index, Free(a.free_list_head))
         IN  IF entry.tag = "Occupied" /\ entry.generation = i.generation
             THEN [arena |-> Arena(replaced, a.generation, Some(i.index)),
                   res |-> SomeV(entry.value)]
             ELSE [arena |-> Arena(Put(replaced, i.index, entry),
                                   a.generation, a.free_list_head),
                   res |-> NoneV]

\* remove as it would be if the entry taken out by mem::replace were put back
\* only when it was Free: a stale Index leaves its slot Free
remove_noRestore(a, i) ==
    IF ~(i.index < Len(a.items))
    THEN [arena |-> a, res |-> Panic("assertion failed: i.index < self.items.len()")]
    ELSE LET entry == At(a.items, i.index)
             replaced == Put(a.items, i.index, Free(a.free_list_head))
         IN  IF entry.tag = "Occupied"
             THEN IF entry.generation = i.generation
                  THEN [arena |-> Arena(replaced, a.generation + 1, Some(i.index)),
                        res |-> SomeV(entry.value)]
                  ELSE [arena |-> Arena(replaced, a.generation, a.free_list_head),
                        res |-> NoneV]
             ELSE [arena |-> Arena(Put(replaced, i.index, entry),
                                   a.generation, a.free_list_head),
                   res |-> NoneV]

\* remove as it would be if the freed slot were not linked to the old head
\* (Free { next_free: None }): the rest of the free list is dropped
remove_dropsList(a, i) ==
    IF ~(i.index < Len(a.items))
    THEN [arena |-> a, res |-> Panic("assertion failed: i.index < self.items.len()")]
    ELSE LET entry == At(a.items, i.index)
             replaced == Put(a.items, i.index, Free(None))
         IN  IF entry.tag = "Occupied" /\ entry.generation = i.generation
             THEN [arena |-> Arena(replaced, a.generation + 1, Some(i.index)),
                   res |-> SomeV(entry.value)]
             ELSE [arena |-> a, res |-> NoneV]

\* fn remove(&mut self, i) -> Option<T>
remove(a, i) ==
    IF ~(i.index < Len(a.items))
    THEN [arena |-> a, res |-> Panic("assertion failed: i.index < self.items.len()")]
    ELSE LET entry == At(a.items, i.index)
             replaced == Put(a.items, i.index, Free(a.free_list_head))
         IN  IF entry.tag = "Occupied"
             THEN IF entry.generation = i.generation
                  THEN [arena |-> Arena(replaced, a.generation + 1, Some(i.index)),
                        res |-> SomeV(entry.value)]
                  ELSE [arena |-> Arena(Put(replaced, i.index,
                                            Occupied(entry.generation, entry.value)),
                                        a.generation, a.free_list_head),
                        res |-> NoneV]
             ELSE [arena |-> Arena(Put(replaced, i.index, entry),
                                   a.generation, a.free_list_head),
                   res |-> NoneV]

\* get as it would be with a checked lookup (Vec::get) instead of the assert!:
\* a position past the end is absent
get_noAssert(a, i) ==
    IF ~(i.index < Len(a.items))
    THEN NoneV
    ELSE LET entry == At(a.items, i.index)
         IN  IF entry.tag = "Occupied" /\ entry.generation = i.generation
             THEN SomeV(entry.value)
             ELSE NoneV

\* fn get(&self, i) -> Option<&T>
get(a, i) ==
    IF ~(i.index < Len(a.items))
    THEN Panic("assertion failed: i.index < self.items.len()")
    ELSE LET entry == At(a.items, i.index)
         IN  IF entry.tag = "Occupied" /\ entry.generation = i.generation
             THEN SomeV(entry.value)
             ELSE NoneV

\* fn get_mut(&mut self, i) -> Option<&mut T>  (the lookup; the model writes nothing through it)
get_mut(a, i) ==
    IF ~(i.index < Len(a.items))
    THEN Panic("assertion failed: i.index < self.items.len()")
    ELSE LET entry == At(a.items, i.index)
         IN  IF entry.tag = "Occupied" /\ entry.generation = i.generation
             THEN SomeV(entry.value)
             ELSE NoneV

\* fn contains(&self, i) -> bool
contains(a, i) ==
    LET r == get(a, i)
    IN  IF r.kind = "panic" THEN r ELSE Bool(r.kind = "Some")

\* fn into_iter(self) -> IntoIter<T>: the iterator owns the entries still to visit
into_iter(a) == [inner |-> a.items]

\* next as it would be if a Free entry ended the iteration instead of being skipped
next_stopsAtFree(it) ==
    IF it.inner = <<>>
    THEN [it |-> it, res |-> NoneV]
    ELSE LET entry == Head(it.inner)
             rest == [inner |-> Tail(it.inner)]
         IN  IF entry.tag = "Free"
             THEN [it |-> rest, res |-> NoneV]
             ELSE [it |-> rest, res |-> SomeV(entry.value)]

\* fn next(&mut self) -> Option<T> of IntoIter: the loop over self.inner.next()
RECURSIVE next(_)
next(it) ==
    IF it.inner = <<>>
    THEN [it |-> it, res |-> NoneV]
    ELSE LET entry == Head(it.inner)
             rest == [inner |-> Tail(it.inner)]
         IN  IF entry.tag = "Free"
             THEN next(rest)
             ELSE [it |-> rest, res |-> SomeV(entry.value)]

\* what the iterator yields until next returns None
RECURSIVE Yielded(_)
Yielded(it) ==
    LET r == next(it)
    IN  IF r.res = NoneV THEN <<>> ELSE <<r.res.value>> \o Yielded(r.it)

\* ---- the state machine ----
FatalOf(res) == IF res.kind = "panic" THEN res.msg ELSE "none"

Constructed(c, op, n) ==
    /\ items = c.arena.items
    /\ generation = c.arena.generation
    /\ free_list_head = c.arena.free_list_head
    /\ fatal = FatalOf(c.res)
    /\ last = [op |-> op, n |-> n, res |-> c.res]
    /\ issued = {}
    /\ held = {}
    /\ removed = {}
    /\ removals = 0

Init == \E n \in 0..MaxInitCap : Constructed(with_capacity(n), "with_capacity", n)

Running == fatal = "none"

Commit(r) ==
    /\ items' = r.arena.items
    /\ generation' = r.arena.generation
    /\ free_list_head' = r.arena.free_list_head
    /\ fatal' = FatalOf(r.res)

Issue(r, value) ==
    IF r.res.kind = "Ok"
    THEN /\ issued' = issued \cup {r.res.index}
         /\ held' = held \cup {[idx |-> r.res.index, value |-> value]}
    ELSE UNCHANGED <<issued, held>>

TryInsert(value) ==
    /\ Running
    /\ LET r == try_insert(self, value)
       IN  /\ Commit(r)
           /\ last' = [op |-> "try_insert", res |-> r.res]
           /\ Issue(r, value)
    /\ UNCHANGED <<removed, removals>>

\* insert, explored while the vector it leaves is no longer than `cap`
InsertWithin(value, cap) ==
    /\ Running
    /\ LET r == insert(self, value)
       IN  /\ Len(r.arena.items) <= cap
           /\ Commit(r)
           /\ last' = [op |-> "insert", res |-> r.res]
           /\ Issue(r, value)
    /\ UNCHANGED <<removed, removals>>

Insert(value) == InsertWithin(value, MaxCap)

Remove(i) ==
    /\ Running
    /\ LET r == remove(self, i)
       IN  /\ r.arena.generation <= MaxGen
           /\ Commit(r)
           /\ last' = [op |-> "remove", res |-> r.res]
           /\ IF r.res.kind = "Some"
              THEN /\ removed' = removed \cup {i}
                   /\ removals' = removals + 1
                   /\ held' = {h \in held : h.idx # i}
              ELSE UNCHANGED <<removed, removals, held>>
    /\ UNCHANGED issued

Reserve(additional_capacity) ==
    /\ Running
    /\ Len(items) + additional_capacity <= MaxCap
    /\ Commit([arena |-> reserve(self, additional_capacity), res |-> Unit])
    /\ last' = [op |-> "reserve", additional |-> additional_capacity, res |-> Unit]
    /\ UNCHANGED <<issued, held, removed, removals>>

\* get, get_mut and contains take the arena as it is and change nothing; a
\* failed assert! ends the run
Query(op, res) ==
    /\ Running
    /\ fatal' = FatalOf(res)
    /\ last' = IF res.kind = "panic" THEN [op |-> op, res |-> res] ELSE last
    /\ UNCHANGED <<items, generation, free_list_head, issued, held, removed, removals>>

\* into_iter takes the arena by value and the caller drains the iterator: no
\* call on the arena follows; its fields stay as the move found them
IntoIter ==
    /\ Running
    /\ fatal' = "consumed"
    /\ last' = [op |-> "into_iter",
                res |-> [kind |-> "Iter", values |-> Yielded(into_iter(self))]]
    /\ UNCHANGED <<items, generation, free_list_head, issued, held, removed, removals>>

Get(i) == Query("get", get(self, i))

GetMut(i) == Query("get_mut", get_mut(self, i))

Contains(i) == Query("contains", contains(self, i))

Next ==
    \/ \E value \in Values : TryInsert(value)
    \/ \E value \in Values : Insert(value)
    \/ \E i \in IndexSet : Remove(i)
    \/ \E additional_capacity \in 0..MaxAdditional : Reserve(additional_capacity)
    \/ \E i \in IndexSet : Get(i)
    \/ \E i \in IndexSet : GetMut(i)
    \/ \E i \in IndexSet : Contains(i)
    \/ IntoIter

Spec == Init /\ [][Next]_vars

\* a fresh arena on which only insert is called
Fill(value) == InsertWithin(value, MaxFillCap)

NextFill == \E value \in Values : Fill(value)

SpecFill == Init /\ [][NextFill]_vars


\* ---- the arena after the step, for the properties of steps ----
selfNext == Arena(items', generation', free_list_head')

Inserted(l) == l.op \in {"insert", "try_insert"} /\ l.res.kind = "Ok"

\* ------------------------------------------------------------------------
\* C1: round trip and persistence.  Every Index returned by insert or
\* try_insert resolves, through get, to the value inserted with it, right
\* after the insertion and in every later state, whatever insert,
\* try_insert, reserve and remove of other indices happened since, until
\* remove of that Index returns the value.
C1_RoundTripPersists == \A h \in held : get(self, h.idx) = SomeV(h.value)

\* an index of generation 0 is still live after the arena has grown (it is
\* longer than any arena constructed here), another
\* index has been removed and its slot has been filled again
C1_Witness ==
    \E h \in held, k \in held :
        /\ h.idx.generation = 0
        /\ k.idx.generation >= 1
        /\ k.idx.index \in {r.index : r \in removed}
        /\ Len(items) > MaxInitCap
        /\ get(self, h.idx) = SomeV(h.value)

\* ------------------------------------------------------------------------
\* C2: invalidation on removal is permanent.  Once remove(i) has returned
\* the value, in every later state get(i) and get_mut(i) are absent,
\* contains(i) is false and remove(i) returns absent, also when the slot
\* i.index holds a new value.
C2_RemovedStaysInvalid ==
    \A i \in removed :
        /\ get(self, i) = NoneV
        /\ get_mut(self, i) = NoneV
        /\ contains(self, i) = Bool(FALSE)
        /\ remove(self, i).res = NoneV

\* a removed index whose slot is Occupied again
C2_Witness ==
    \E i \in removed :
        /\ i.index < Len(items)
        /\ At(items, i.index).tag = "Occupied"
        /\ get(self, i) = NoneV

\* ------------------------------------------------------------------------
\* C3: no index collision after reuse.  The Index an insertion returns is
\* different from every Index returned before; an earlier Index of the same
\* position has a strictly smaller generation and get of it is absent, while
\* get of the new Index returns the value just inserted.
C3_NoIndexCollision ==
    [][Inserted(last') =>
          LET n == last'.res.index
          IN  /\ n \notin issued
              /\ \A j \in issued : j.index = n.index =>
                      /\ j.generation < n.generation
                      /\ get(selfNext, j) = NoneV
              /\ get(selfNext, n).kind = "Some"
              /\ [idx |-> n, value |-> get(selfNext, n).value] \in held'
              /\ \A h \in held' : h.idx = n => h.value = get(selfNext, n).value]_vars

\* an insertion has just returned an Index of a position that was issued before
C3_Witness ==
    /\ Inserted(last)
    /\ \E j \in issued :
          /\ j.index = last.res.index.index
          /\ j.generation < last.res.index.generation
          /\ get(self, j) = NoneV
          /\ get(self, last.res.index).kind = "Some"

\* ---- the free list ----
FreePositions(its) == {p \in 0..(Len(its) - 1) : At(its, p).tag = "Free"}

NoFreeSlot(its) == FreePositions(its) = {}

\* the positions met from `head` along the next_free links; -1 closes the walk
\* when it leaves the vector, meets an Occupied slot or runs longer than the
\* vector (a cycle)
RECURSIVE FreeWalk(_, _, _)
FreeWalk(its, head, fuel) ==
    IF head = None
    THEN <<>>
    ELSE IF fuel = 0 \/ ~(Unwrap(head) < Len(its))
    THEN <<-1>>
    ELSE IF At(its, Unwrap(head)).tag # "Free"
    THEN <<-1>>
    ELSE <<Unwrap(head)>> \o FreeWalk(its, At(its, Unwrap(head)).next_free, fuel - 1)

FreeList(a) == FreeWalk(a.items, a.free_list_head, Len(a.items))

\* ------------------------------------------------------------------------
\* C4: insert never fails.  Whatever insert, try_insert, remove and
\* reserve(additional >= 0) came before, insert(v) returns an Index and get
\* of that Index is then a value.
C4_InsertNeverFails ==
    last.op = "insert" =>
        /\ last.res.kind = "Ok"
        /\ get(self, last.res.index).kind = "Some"

\* ------------------------------------------------------------------------
\* C5: free-list integrity.  The walk from free_list_head along next_free
\* ends in None and visits exactly the Free slots, each once, so it is as
\* long as capacity() minus the number of live values.
C5_FreeListIntegrity ==
    LET walk == FreeList(self)
    IN  /\ \A k \in 1..Len(walk) : walk[k] # -1
        /\ \A k, m \in 1..Len(walk) : walk[k] = walk[m] => k = m
        /\ {walk[k] : k \in 1..Len(walk)} = FreePositions(items)
        /\ Len(walk) = capacity(self) - Cardinality(held)

\* ------------------------------------------------------------------------
\* C6: the free list never points at a live slot.  free_list_head is None or
\* the position of a Free slot, and try_insert never panics with "corrupt
\* free list".
C6_HeadIsFreeSlot ==
    /\ \/ free_list_head = None
       \/ /\ Unwrap(free_list_head) < Len(items)
          /\ At(items, Unwrap(free_list_head)).tag = "Free"
    /\ fatal # "corrupt free list"

\* ------------------------------------------------------------------------
\* C7: try_insert on a full arena is a recoverable no-op.  When no slot is
\* Free, try_insert(v) returns v back, does not panic and leaves the slots,
\* the generation counter and free_list_head as they were.
C7_TryInsertFullIsNoOp ==
    [][\A v \in Values :
          (NoFreeSlot(items) /\ TryInsert(v)) =>
              /\ last'.res = Err(v)
              /\ fatal' = "none"
              /\ UNCHANGED <<items, generation, free_list_head>>]_vars

\* ------------------------------------------------------------------------
\* C8: a stale or double remove is a no-op.  remove(i) of an in-bounds
\* position whose slot is Free, or Occupied with another generation than
\* i.generation, returns absent and leaves every slot, free_list_head, the
\* generation counter and the capacity as they were.
StaleFor(i) ==
    /\ i.index < Len(items)
    /\ \/ At(items, i.index).tag = "Free"
       \/ At(items, i.index).generation # i.generation

C8_StaleRemoveIsNoOp ==
    [][\A i \in IndexSet :
          (StaleFor(i) /\ Remove(i)) =>
              /\ last'.res = NoneV
              /\ fatal' = "none"
              /\ UNCHANGED <<items, generation, free_list_head>>]_vars

\* a remove has just returned absent while the arena holds a live value, a
\* Free slot and an index removed before: the slots are what the insertions
\* and the one successful removal left
C8_Witness ==
    /\ last.op = "remove"
    /\ last.res = NoneV
    /\ held # {}
    /\ removed # {}
    /\ ~NoFreeSlot(items)
    /\ \E i \in removed : StaleFor(i)

\* ------------------------------------------------------------------------
\* C9: the generation counter advances by exactly 1 on each successful
\* remove and on no other call, so it is the number of successful removals;
\* the generation stamped into a newly Occupied slot, and returned in its
\* Index, is the counter's value at the insertion.
C9_GenerationCountsRemovals ==
    [][/\ generation' = removals'
       /\ generation' = generation +
              (IF last'.op = "remove" /\ last'.res.kind = "Some" /\ removals' # removals
               THEN 1 ELSE 0)
       /\ Inserted(last') /\ issued' # issued =>
              /\ last'.res.index.generation = generation
              /\ At(items', last'.res.index.index).tag = "Occupied"
              /\ At(items', last'.res.index.index).generation = generation]_vars

\* an insertion after a removal: the Index carries the advanced counter
C9_Witness ==
    /\ Inserted(last)
    /\ removals >= 1
    /\ generation = removals
    /\ last.res.index.generation = generation
    /\ At(items, last.res.index.index).generation = generation

\* ------------------------------------------------------------------------
\* C10: reserve preserves the contents.  reserve(additional), for every
\* additional >= 0, leaves every slot that existed at its position with its
\* state, value and generation, leaves the generation counter as it was, and
\* get of every Index gives what it gave before.
C10_ReservePreserves ==
    [][\A k \in 0..MaxAdditional :
          Reserve(k) =>
              /\ SubSeq(items', 1, Len(items)) = items
              /\ generation' = generation
              /\ \A i \in issued : get(selfNext, i) = get(self, i)
              /\ \A i \in IndexSet :
                    i.index < Len(items) => get(selfNext, i) = get(self, i)]_vars

\* a reserve has just run on an arena holding a live value and a removed index
C10_Witness ==
    /\ last.op = "reserve"
    /\ held # {}
    /\ removed # {}
    /\ \A h \in held : get(self, h.idx) = SomeV(h.value)

\* ------------------------------------------------------------------------
\* C11: capacity monotonicity.  No call makes capacity() smaller;
\* reserve(k) makes it larger by exactly k, for k = 0 as well; try_insert,
\* remove, get, get_mut and contains leave it as it is; capacity() is the
\* number of slots, Occupied and Free together, not the number of live values.
OccupiedPositions(its) == {p \in 0..(Len(its) - 1) : At(its, p).tag = "Occupied"}

C11_CapacityMonotone ==
    [][/\ capacity(selfNext) >= capacity(self)
       /\ capacity(selfNext) =
              Cardinality(OccupiedPositions(items')) + Cardinality(FreePositions(items'))
       /\ \A k \in 0..MaxAdditional :
              Reserve(k) => capacity(selfNext) = capacity(self) + k
       /\ \A v \in Values :
              TryInsert(v) => capacity(selfNext) = capacity(self)
       /\ \A i \in IndexSet :
              (Remove(i) \/ Get(i) \/ GetMut(i) \/ Contains(i)) =>
                  capacity(selfNext) = capacity(self)]_vars

\* a reserve of at least one slot has just run on an arena holding a live
\* value: the capacity is larger than the number of live values
C11_Witness ==
    /\ last.op = "reserve"
    /\ last.additional >= 1
    /\ held # {}
    /\ capacity(self) > Cardinality(held)
    /\ capacity(self) = Cardinality(OccupiedPositions(items)) + Cardinality(FreePositions(items))

\* ------------------------------------------------------------------------
\* C12: positions out of bounds are fatal, not absent.  get, get_mut,
\* contains and remove of an Index whose position is >= capacity() panic
\* (they return neither absent nor false), and remove leaves the arena as it
\* was.
OutOfBounds(i) == i.index >= capacity(self)

AssertFailed == "assertion failed: i.index < self.items.len()"

C12_OutOfBoundsIsFatal ==
    /\ \A i \in IndexSet :
          OutOfBounds(i) =>
              /\ get(self, i) = Panic(AssertFailed)
              /\ get_mut(self, i) = Panic(AssertFailed)
              /\ contains(self, i) = Panic(AssertFailed)
              /\ remove(self, i) = [arena |-> self, res |-> Panic(AssertFailed)]
    /\ last.op \in {"get", "get_mut", "contains"} =>
          /\ last.res = Panic(AssertFailed)
          /\ fatal = AssertFailed

\* a remove of a position past the end has just panicked on an arena that
\* holds a live value
C12_Witness ==
    /\ last.op = "remove"
    /\ fatal = AssertFailed
    /\ held # {}
    /\ \A h \in held : get(self, h.idx) = SomeV(h.value)

\* ------------------------------------------------------------------------
\* C13: construction.  with_capacity(0) panics; for n > 0 with_capacity(n)
\* gives an arena of capacity n whose n slots are all Free and on one free
\* list that covers each of them once, with generation counter 0; new() gives
\* what with_capacity(4) gives.
FreshArena(a, n) ==
    LET walk == FreeList(a)
    IN  /\ capacity(a) = n
        /\ FreePositions(a.items) = 0..(n - 1)
        /\ Len(walk) = n
        /\ {walk[k] : k \in 1..Len(walk)} = 0..(n - 1)
        /\ a.generation = 0

C13_Construction ==
    /\ last.op = "with_capacity" =>
          IF last.n = 0
          THEN last.res.kind = "panic" /\ fatal # "none"
          ELSE last.res = Unit /\ fatal = "none" /\ FreshArena(self, last.n)
    /\ new = with_capacity(4)
    /\ new.res = Unit
    /\ FreshArena(new.arena, 4)

\* the arena as with_capacity(n) returned it, for the largest n explored
C13_Witness ==
    /\ last.op = "with_capacity"
    /\ last.n = MaxInitCap
    /\ last.n > 0
    /\ capacity(self) = last.n
    /\ free_list_head = Some(0)

\* ------------------------------------------------------------------------
\* C14: consuming iteration yields exactly the live values.  Whatever calls
\* came before, into_iter() ends and yields the value of every Occupied
\* slot, in increasing position order, and nothing for a Free slot; it
\* yields as many items as values were inserted and not yet removed.
C14_IterationYieldsLive ==
    last.op = "into_iter" =>
        LET yielded == last.res.values
            occ == OccupiedPositions(items)
            Rank(p) == Cardinality({q \in occ : q <= p})
        IN  /\ Len(yielded) = Cardinality(occ)
            /\ \A p \in occ : yielded[Rank(p)] = At(items, p).value
            /\ Len(yielded) = Cardinality(held)

\* an iteration over an arena with a Free slot before an Occupied one
C14_Witness ==
    /\ last.op = "into_iter"
    /\ Len(last.res.values) >= 1
    /\ \E p \in FreePositions(items), q \in OccupiedPositions(items) : p < q

\* ------------------------------------------------------------------------
\* C15: growth on insert doubles once and only when full.  insert(v) leaves
\* capacity() as it is when a slot is Free, and makes it exactly twice as
\* large when no slot is Free.
C15_InsertDoublesWhenFull ==
    [][\A v \in Values :
          Insert(v) =>
              IF NoFreeSlot(items)
              THEN capacity(selfNext) = 2 * capacity(self)
              ELSE capacity(selfNext) = capacity(self)]_vars

\* ------------------------------------------------------------------------
\* C16: a successful remove pushes the slot onto the front of the free
\* list.  After remove(i) returned the value, slot i.index is Free and links
\* to the head of before, free_list_head is i.index and every other slot is
\* as before; so the next insert or try_insert takes position i.index, with
\* the advanced generation.
C16_RemovePushesFront ==
    [][\A i \in IndexSet :
          (Remove(i) /\ removals' # removals) =>
              /\ At(items', i.index) = Free(free_list_head)
              /\ free_list_head' = Some(i.index)
              /\ Len(items') = Len(items)
              /\ \A p \in 0..(Len(items) - 1) :
                    p # i.index => At(items', p) = At(items, p)
              /\ \A v \in Values :
                    /\ try_insert(selfNext, v).res = Ok(Index(i.index, generation + 1))
                    /\ insert(selfNext, v).res = Ok(Index(i.index, generation + 1))
                    /\ At(insert(selfNext, v).arena.items, i.index)
                           = Occupied(generation + 1, v)]_vars

\* a remove has just returned a value while another slot was on the free
\* list: the freed slot is the head and links to that slot
C16_Witness ==
    /\ last.op = "remove"
    /\ last.res.kind = "Some"
    /\ free_list_head # None
    /\ Unwrap(free_list_head) < Len(items)
    /\ At(items, Unwrap(free_list_head)).tag = "Free"
    /\ At(items, Unwrap(free_list_head)).next_free # None
    /\ \E i \in removed : i.index = Unwrap(free_list_head)

\* ------------------------------------------------------------------------
\* C17: reserve threads the new slots in front of the old free list.  After
\* reserve(additional) on an arena of capacity c with head h,
\* free_list_head is the first appended position, each appended slot but
\* the last links to the next position and the last one links to h; so the
\* next `additional` insertions take the positions c, c + 1, ...,
\* c + additional - 1 in this order.
RECURSIVE InsertedPositions(_, _)
InsertedPositions(a, n) ==
    IF n = 0
    THEN <<>>
    ELSE LET r == try_insert(a, 10)
         IN  IF r.res.kind # "Ok"
             THEN <<-1>>
             ELSE <<r.res.index.index>> \o InsertedPositions(r.arena, n - 1)

C17_ReserveThreadsInFront ==
    [][\A k \in 0..MaxAdditional :
          Reserve(k) =>
              LET c == capacity(self)
                  h == free_list_head
              IN  /\ free_list_head' = Some(c)
                  /\ c < capacity(selfNext)
                  /\ \A p \in c..(c + k - 2) : At(items', p) = Free(Some(p + 1))
                  /\ k >= 1 => At(items', c + k - 1) = Free(h)
                  /\ InsertedPositions(selfNext, k) = [j \in 1..k |-> c + j - 1]]_vars

\* ------------------------------------------------------------------------
\* C18: allocation order without removals.  On a fresh arena on which only
\* insert is called, the k-th insert returns the Index of position k - 1 and
\* generation 0, however often the arena grew in between.
C18_FillInPositionOrder ==
    [][\A v \in Values :
          Fill(v) => last'.res = Ok(Index(Cardinality(issued), 0))]_vars

\* the fifth insert on an arena that has grown to eight slots
C18_Witness ==
    /\ Inserted(last)
    /\ last.res.index = Index(4, 0)
    /\ Cardinality(issued) = 5
    /\ capacity(self) = 8
    /\ removals = 0

\* ------------------------------------------------------------------------
\* C19: issued indices stay in bounds.  The position of every Index that
\* insert or try_insert returned is below capacity() in every later state,
\* so get, get_mut, contains and remove of it never fail their assert!.
C19_IssuedStayInBounds ==
    \A i \in issued :
        /\ i.index < capacity(self)
        /\ get(self, i).kind # "panic"
        /\ get_mut(self, i).kind # "panic"
        /\ contains(self, i).kind # "panic"
        /\ remove(self, i).res.kind # "panic"

\* an Index of the last position of a grown arena, removed since, with
\* another Index still live
C19_Witness ==
    /\ Len(items) > MaxInitCap
    /\ held # {}
    /\ \E i \in issued :
          /\ i \in removed
          /\ i.index = capacity(self) - 1
          /\ get(self, i) = NoneV

\* ------------------------------------------------------------------------
\* C20: generation bound.  The generation stamped in an Occupied slot is
\* never above the arena's generation counter, and the generation of an
\* Index whose removal succeeded is strictly below it: no later insertion is
\* stamped with the generation of a removed Index.
C20_GenerationBound ==
    /\ \A p \in OccupiedPositions(items) : At(items, p).generation <= generation
    /\ \A i \in removed : i.generation < generation
    /\ \A i \in removed, v \in Values :
          LET r == try_insert(self, v)
          IN  r.res.kind = "Ok" => r.res.index.generation > i.generation

\* a slot stamped with the counter's present value, after a removal
C20_Witness ==
    /\ removed # {}
    /\ generation >= 1
    /\ \E p \in OccupiedPositions(items) : At(items, p).generation = generation
    /\ \E p \in OccupiedPositions(items) : At(items, p).generation < generation
====
